---- MODULE Spec2Model ----
(***************************************************************************)
(* The parking screen of kenpark (src/app/(tabs)/index.tsx): the swipe     *)
(* control, the payment drawer, the cancel dialog and the callbacks the    *)
(* screen hands to the useParking and usePayment hooks.                    *)
(*                                                                         *)
(* The two hooks, the phone formatter, the location service and CONFIG are *)
(* imported by the screen (index.tsx:24-30) but their files are not part   *)
(* of the source tree at hand; they are modelled from spec.md sections 3,  *)
(* 4 and 6.  Everything else is translated from index.tsx.                 *)
(*                                                                         *)
(* One step of the model is one turn of the JavaScript event loop: a       *)
(* handler runs to completion together with every hook call it makes.      *)
(***************************************************************************)
EXTENDS Integers, Sequences, FiniteSets, TLC

\* ---------------------------------------------------------------- bounds
MaxTime == 1        \* clock ticks the model lets pass
MaxSessions == 1    \* parking sessions started
MaxRequests == 2    \* payment requests submitted to the gateway
TicksPerHour == 2   \* clock ticks in one hour of parking

\* ------------------------------------------------------------- constants
SCREEN_HEIGHT == 800
DRAWER_MIN_HEIGHT == 100
\* Heights are kept in quarter points so that SCREEN_HEIGHT * 0.75 is exact.
Q(points) == 4 * points
DRAWER_MAX_HEIGHT_Q == 3 * SCREEN_HEIGHT
DRAWER_MIN_HEIGHT_Q == Q(DRAWER_MIN_HEIGHT)
HOURLY_RATE == 3

NoTime == -1
NoRequest == 0
NoCoords == "none"

VARIABLES
    now,                 \* wall clock, in ticks
    parking,             \* state of useParking
    payment,             \* state of usePayment
    requests,            \* what became of each request, by checkoutRequestID
    outstanding,         \* ids the gateway has not yet answered
    paymentModalVisible, \* index.tsx:42
    alert,               \* the native Alert on screen
    modalVisible,        \* index.tsx:39
    modalMessage,        \* index.tsx:40
    modalType,           \* index.tsx:41
    dismissPending,      \* some setTimeout callback of showModal has not run yet
    drawerHeight,        \* index.tsx:43, quarter points
    isDrawerMinimized,   \* index.tsx:44
    location,            \* index.tsx:37
    loadingLocation,     \* index.tsx:38
    locPc,               \* position of the location effect (index.tsx:222-239)
    last,                \* the handler that ran last and the hook operations it invoked
    completeCalls,       \* completeParking invocations per confirmed request
    discarded            \* sessions abandoned by 'Yes, Cancel'

vars == <<now, parking, payment, requests, outstanding, paymentModalVisible,
          alert, modalVisible, modalMessage, modalType, dismissPending, drawerHeight,
          isDrawerMinimized, location, loadingLocation, locPc, last,
          completeCalls, discarded>>

\* ------------------------------------------------------- phone formatter
Digits == {"0", "1", "2", "3", "4", "5", "6", "7", "8", "9"}

RECURSIVE trimStart(_)
trimStart(s) ==
    IF s # <<>> /\ Head(s) = " " THEN trimStart(Tail(s)) ELSE s

RECURSIVE trimEnd(_)
trimEnd(s) ==
    IF s # <<>> /\ s[Len(s)] = " " THEN trimEnd(SubSeq(s, 1, Len(s) - 1)) ELSE s

\* String.prototype.trim, index.tsx:155
trim(s) == trimEnd(trimStart(s))

onlyDigits(s) == SelectSeq(s, LAMBDA c : c \in Digits)

CountryCode == <<"2", "5", "4">>

\* format(raw) -> normalized | null; the empty sequence stands for null.
formatPhoneNumber(raw) ==
    LET d == onlyDigits(raw) IN
    IF Len(d) = 10 /\ d[1] = "0" /\ d[2] \in {"7", "1"} THEN CountryCode \o Tail(d)
    ELSE IF Len(d) = 9 /\ d[1] \in {"7", "1"} THEN CountryCode \o d
    ELSE IF Len(d) = 12 /\ SubSeq(d, 1, 3) = CountryCode /\ d[4] \in {"7", "1"} THEN d
    ELSE <<>>

\* the format check initiate() applies to the normalized number
isNormalizedPhone(p) ==
    /\ Len(p) = 12
    /\ SubSeq(p, 1, 3) = CountryCode
    /\ p[4] \in {"7", "1"}
    /\ \A i \in 1..Len(p) : p[i] \in Digits

\* What the phone input can deliver through onChangeText.
PhoneInputs ==
    { <<>>,
      <<" ", " ">>,
      <<"1", "2", "3">>,
      <<" ", "0", "7", "1", "2", "3", "4", "5", "6", "7", "8">> }

\* mpesaReceiptNumber of a confirmed transaction; it may be missing.
Receipts == {"", "RCPT"}

\* ------------------------------------------------------------ useParking
elapsedTime(p, t) == IF p.isParking THEN t - p.startTime ELSE 0

\* cost = ceil(elapsed * rate / hour)
costOf(elapsed) == (elapsed * HOURLY_RATE + TicksPerHour - 1) \div TicksPerHour

parkingCost(p, t) == costOf(elapsedTime(p, t))

startParking(p, t) ==
    IF p.isParking THEN p
    ELSE [p EXCEPT !.isParking = TRUE, !.startTime = t, !.session = p.session + 1]

resumeParking(p, coords) == [p EXCEPT !.tracked = coords]

resetParking(p) == [p EXCEPT !.isParking = FALSE, !.startTime = NoTime]

completeParking(p, receipt, t) ==
    IF ~p.isParking THEN p
    ELSE [p EXCEPT !.isParking = FALSE,
                   !.startTime = NoTime,
                   !.history = Append(p.history,
                                      [session |-> p.session,
                                       cost |-> parkingCost(p, t),
                                       receipt |-> receipt])]

\* ------------------------------------------------------------ usePayment
isProcessingPayment(y) == y.status = "Pending"

setPhoneNumber(y, raw) ==
    IF y.status = "Pending" THEN y
    ELSE [y EXCEPT !.phoneNumber = raw,
                   !.status = IF y.status = "Idle" THEN "AwaitingInput" ELSE y.status]

\* initiate() accepts: the number passes the format check and no request is pending
initiateAccepts_noPendingGuard(y, phone) == isNormalizedPhone(phone)

initiateAccepts(y, phone) == isNormalizedPhone(phone) /\ y.status # "Pending"

cancelPayment(y) ==
    IF y.status # "Pending" THEN y
    ELSE [y EXCEPT !.status = "AwaitingInput", !.checkoutRequestID = NoRequest]

resetPayment(y) ==
    [status |-> "Idle", phoneNumber |-> <<>>, checkoutRequestID |-> NoRequest,
     receipt |-> ""]

\* a confirmation is applied only to the request that is pending now
isCurrent(y, r) == y.status = "Pending" /\ y.checkoutRequestID = r


\* ------------------------------------------------ hook calls of a handler
\* A handler's effect on the two hooks is the list of the calls it makes,
\* applied in order to st = [parking, payment].
Call(op, arg) == [op |-> op, arg |-> arg]

ApplyCall(st, c, t) ==
    CASE c.op = "startParking" -> [st EXCEPT !.parking = startParking(@, t)]
      [] c.op = "resumeParking" -> [st EXCEPT !.parking = resumeParking(@, c.arg)]
      [] c.op = "resetParking" -> [st EXCEPT !.parking = resetParking(@)]
      [] c.op = "completeParking" -> [st EXCEPT !.parking = completeParking(@, c.arg, t)]
      [] c.op = "setPhoneNumber" -> [st EXCEPT !.payment = setPhoneNumber(@, c.arg)]
      [] c.op = "cancelPayment" -> [st EXCEPT !.payment = cancelPayment(@)]
      [] c.op = "resetPayment" -> [st EXCEPT !.payment = resetPayment(@)]
      [] OTHER -> st

RECURSIVE ApplyCalls(_, _, _)
ApplyCalls(st, cs, t) ==
    IF cs = <<>> THEN st ELSE ApplyCalls(ApplyCall(st, Head(cs), t), Tail(cs), t)

OpNames(cs) == [i \in 1..Len(cs) |-> cs[i].op]

CountOf(ops, op) == Cardinality({i \in 1..Len(ops) : ops[i] = op})

Hooks == [parking |-> parking, payment |-> payment]

\* handler h ran and invoked the hook operations ops
Did(h, ops) == last' = [handler |-> h, req |-> NoRequest, calls |-> ops]

\* the same for the gateway's answer to request r
DidFor(h, r, ops) == last' = [handler |-> h, req |-> r, calls |-> ops]

\* handler h makes the calls cs and nothing else touches the hooks
Invoke(h, cs) ==
    LET st == ApplyCalls(Hooks, cs, now) IN
    /\ parking' = st.parking
    /\ payment' = st.payment
    /\ Did(h, OpNames(cs))

Gateway == <<requests, outstanding, completeCalls>>
Notice == <<modalVisible, modalMessage, modalType, dismissPending>>
Drawer == <<drawerHeight, isDrawerMinimized>>
Locating == <<location, loadingLocation, locPc>>

\* ------------------------------------------------------------- showModal
\* index.tsx:92-100.  Every call sets one more timer; the timers are kept as
\* "at least one has not run yet", which is all that their callback reads.
showModal(message, type) ==
    /\ modalMessage' = message
    /\ modalType' = type
    /\ modalVisible' = TRUE
    /\ dismissPending' = TRUE

\* index.tsx:97-99: one timer runs; others may remain
TimerFires ==
    /\ dismissPending
    /\ dismissPending' \in BOOLEAN
    /\ modalVisible' = FALSE
    /\ Did("TimerFires", <<>>)
    /\ UNCHANGED <<now, parking, payment, Gateway, paymentModalVisible, alert,
                   modalMessage, modalType, Drawer, Locating, discarded>>

\* index.tsx:251
NoticeRequestClose ==
    /\ modalVisible
    /\ modalVisible' = FALSE
    /\ Did("NoticeRequestClose", <<>>)
    /\ UNCHANGED <<now, parking, payment, Gateway, paymentModalVisible, alert,
                   modalMessage, modalType, dismissPending, Drawer, Locating, discarded>>

\* ------------------------------------------------------------------ time
Tick ==
    /\ now < MaxTime
    /\ now' = now + 1
    /\ Did("Tick", <<>>)
    /\ UNCHANGED <<parking, payment, Gateway, paymentModalVisible, alert, Notice,
                   Drawer, Locating, discarded>>

\* --------------------------------------------------------- toggleParking
\* The native Alert and the payment Modal cover the swipe button.
SwipeReachable == alert = "none" /\ ~paymentModalVisible

toggleParkingCalls_stop(isParking) ==
    IF isParking THEN <<Call("resetParking", "")>> ELSE <<Call("startParking", "")>>

toggleParkingCalls_restart(isParking) == <<Call("startParking", "")>>

toggleParkingCalls(isParking) ==
    IF isParking THEN <<>> ELSE <<Call("startParking", "")>>

\* index.tsx:103-122.  The timer of lines 115-117 only focuses the phone
\* input, which is no state of the model.
toggleParking ==
    /\ SwipeReachable
    /\ Invoke("toggleParking", toggleParkingCalls(parking.isParking))
    /\ IF parking.isParking
       THEN /\ paymentModalVisible' = TRUE
            /\ drawerHeight' = DRAWER_MAX_HEIGHT_Q
            /\ isDrawerMinimized' = FALSE
            /\ UNCHANGED Notice
       ELSE /\ parking.session < MaxSessions
            /\ showModal("Parking started successfully!", "success")
            /\ UNCHANGED <<paymentModalVisible, Drawer>>
    /\ UNCHANGED <<now, Gateway, alert, Locating, discarded>>


\* ---------------------------------------------------------- cancel dialog
DrawerReachable == alert = "none" /\ paymentModalVisible

\* the content below the header is rendered only when the drawer is not
\* minimized (index.tsx:330)
ContentRendered == DrawerReachable /\ ~isDrawerMinimized

\* index.tsx:125-151: Alert.alert('Cancel Parking?', ...)
handleCancelPayment ==
    /\ alert' = "cancel"
    /\ Did("handleCancelPayment", <<>>)
    /\ UNCHANGED <<now, parking, payment, Gateway, paymentModalVisible, Notice,
                   Drawer, Locating, discarded>>

\* index.tsx:285
PaymentModalRequestClose ==
    /\ DrawerReachable
    /\ ~isProcessingPayment(payment)
    /\ handleCancelPayment

\* index.tsx:288-292
BackdropPress ==
    /\ DrawerReachable
    /\ ~isProcessingPayment(payment)
    /\ handleCancelPayment

CloseButtonPress_notDisabled ==
    /\ DrawerReachable
    /\ handleCancelPayment

\* index.tsx:316-320
CloseButtonPress ==
    /\ DrawerReachable
    /\ ~isProcessingPayment(payment)
    /\ handleCancelPayment

\* index.tsx:437-440
CancelLinkPress ==
    /\ ContentRendered
    /\ payment.status # "Pending"
    /\ ~isProcessingPayment(payment)
    /\ handleCancelPayment

coordsOf(loc) == IF loc = NoCoords THEN NoCoords ELSE "coords"

continueParkingCalls_restart(loc) ==
    <<Call("resetParking", ""), Call("startParking", "")>>

continueParkingCalls(loc) == <<Call("resumeParking", coordsOf(loc))>>

\* index.tsx:131-136
ContinueParking ==
    /\ alert = "cancel"
    /\ Invoke("ContinueParking", continueParkingCalls(location))
    /\ paymentModalVisible' = FALSE
    /\ alert' = "none"
    /\ UNCHANGED <<now, Gateway, Notice, Drawer, Locating, discarded>>

yesCancelCalls_keepPayment == <<Call("resetParking", "")>>

yesCancelCalls == <<Call("resetParking", ""), Call("resetPayment", "")>>

\* index.tsx:140-146
YesCancel ==
    /\ alert = "cancel"
    /\ Invoke("YesCancel", yesCancelCalls)
    /\ paymentModalVisible' = FALSE
    /\ showModal("Parking cancelled", "warning")
    /\ alert' = "none"
    /\ discarded' = discarded \cup (IF parking.isParking THEN {parking.session} ELSE {})
    /\ UNCHANGED <<now, Gateway, Drawer, Locating>>

\* ------------------------------------------------------------ phone input
\* index.tsx:383-395: rendered unless the status is pending, editable unless
\* a payment is being processed
ChangeText(raw) ==
    /\ ContentRendered
    /\ payment.status # "Pending"
    /\ ~isProcessingPayment(payment)
    /\ Invoke("ChangeText", <<Call("setPhoneNumber", raw)>>)
    /\ UNCHANGED <<now, Gateway, paymentModalVisible, alert, Notice, Drawer,
                   Locating, discarded>>

\* ------------------------------------------------- handleInitiatePayment
\* index.tsx:155-164: "empty", "invalid" or "ok"
phoneCheck_noFormatCheck(raw) == IF trim(raw) = <<>> THEN "empty" ELSE "ok"

phoneCheck(raw) ==
    IF trim(raw) = <<>> THEN "empty"
    ELSE IF formatPhoneNumber(raw) = <<>> THEN "invalid"
    ELSE "ok"

\* index.tsx:168: the amount handed to initiatePayment
paymentAmount(p, t) == parkingCost(p, t)

\* initiate(normalizedPhone, amount, onSuccess, onError)
initiatePayment(phone, amount) ==
    /\ Did("handleInitiatePayment", <<"initiatePayment">>)
    /\ IF initiateAccepts(payment, phone)
       THEN /\ Len(requests) < MaxRequests
            /\ payment' = [payment EXCEPT !.status = "Pending",
                                          !.checkoutRequestID = Len(requests) + 1]
            /\ requests' = Append(requests,
                                  [result |-> "none"])
            /\ outstanding' = outstanding \cup {Len(requests) + 1}
       ELSE UNCHANGED <<payment, requests, outstanding>>
    /\ UNCHANGED <<parking, completeCalls, Notice>>

\* index.tsx:154-192.  The handler itself has no guard on the payment status;
\* it is wired to the Pay button (index.tsx:422) and to the submit key of the
\* phone input (index.tsx:394).  Both are rendered from the status of the
\* last render, so a press dispatched before the next render still reaches
\* the handler: it may run whenever the drawer is up.  A call that
\* initiatePayment rejects changes no state of the hooks.
handleInitiatePayment ==
    /\ DrawerReachable
    /\ LET check == phoneCheck(payment.phoneNumber) IN
       IF check = "empty"
       THEN /\ showModal("Please enter a phone number", "error")
            /\ Did("handleInitiatePayment", <<>>)
            /\ UNCHANGED <<parking, payment, Gateway>>
       ELSE IF check = "invalid"
       THEN /\ showModal("Please enter a valid Kenyan phone number (e.g., 0712345678)",
                         "error")
            /\ Did("handleInitiatePayment", <<>>)
            /\ UNCHANGED <<parking, payment, Gateway>>
       ELSE initiatePayment(formatPhoneNumber(payment.phoneNumber),
                            paymentAmount(parking, now))
    /\ UNCHANGED <<now, paymentModalVisible, alert, Drawer, Locating, discarded>>

cancelPaymentPressCalls_alsoReset == <<Call("cancelPayment", ""), Call("resetParking", "")>>

cancelPaymentPressCalls == <<Call("cancelPayment", "")>>

\* index.tsx:409-417; cancel() asks the gateway to cancel the request, which
\* the gateway may still answer
CancelPaymentPress ==
    /\ ContentRendered
    /\ payment.status = "Pending"
    /\ Invoke("CancelPaymentPress", cancelPaymentPressCalls)
    /\ requests' = [requests EXCEPT ![payment.checkoutRequestID].result = "cancelled"]
    /\ UNCHANGED <<now, outstanding, completeCalls, paymentModalVisible, alert, Notice, Drawer,
                   Locating, discarded>>


\* ------------------------------------------------- payment confirmation
\* transaction.mpesaReceiptNumber || 'N/A', index.tsx:171
receiptOrNA(receipt) == IF receipt = "" THEN "N/A" ELSE receipt

\* index.tsx:49-51: the callback given to usePayment
onPaymentSuccessCalls(mpesaReceipt) == <<Call("completeParking", mpesaReceipt)>>

\* index.tsx:169-171: the callback given to initiatePayment, up to its Alert
onSuccessCalls(receipt) == <<Call("completeParking", receiptOrNA(receipt))>>

\* index.tsx:188-190: the error callback only shows an Alert
onErrorCalls_reset == <<Call("resetParking", "")>>

onErrorCalls == <<>>

\* index.tsx:179-183: the Done button of the success Alert
doneCalls_keepPayment == <<Call("resetParking", "")>>

doneCalls == <<Call("resetParking", ""), Call("resetPayment", "")>>

\* the hook runs the success callbacks the screen registered, each once
successCallbacks(receipt) == onPaymentSuccessCalls(receipt) \o onSuccessCalls(receipt)

\* the gateway confirms request r with a receipt
GatewaySuccess(r, receipt) ==
    /\ r \in outstanding
    /\ outstanding' = outstanding \ {r}
    /\ IF isCurrent(payment, r)
       THEN LET cs == successCallbacks(receipt)
                st == ApplyCalls([parking |-> parking,
                                  payment |-> [payment EXCEPT !.status = "Success",
                                                              !.receipt = receipt]],
                                 cs, now)
            IN /\ parking' = st.parking
               /\ payment' = st.payment
               /\ DidFor("GatewaySuccess", r, OpNames(cs))
               /\ completeCalls' =
                      [completeCalls EXCEPT ![r] = @ + CountOf(OpNames(cs), "completeParking")]
               /\ requests' = [requests EXCEPT ![r].result = "success"]
               /\ alert' = "success"
       ELSE /\ DidFor("GatewaySuccess", r, <<>>)
            /\ UNCHANGED <<parking, payment, completeCalls, requests, alert>>
    /\ UNCHANGED <<now, paymentModalVisible, Notice, Drawer, Locating, discarded>>

\* the pending request fails: the hook goes back to AwaitingInput, clears the
\* request id and runs onError
paymentFails(h, r) ==
    LET cs == onErrorCalls
        st == ApplyCalls([parking |-> parking,
                          payment |-> [payment EXCEPT !.status = "AwaitingInput",
                                                      !.checkoutRequestID = NoRequest]],
                         cs, now)
    IN /\ parking' = st.parking
       /\ payment' = st.payment
       /\ DidFor(h, r, OpNames(cs))
       /\ alert' = "error"

\* the gateway rejects request r
GatewayFailure(r) ==
    /\ r \in outstanding
    /\ outstanding' = outstanding \ {r}
    /\ IF isCurrent(payment, r)
       THEN paymentFails("GatewayFailure", r)
       ELSE /\ DidFor("GatewayFailure", r, <<>>)
            /\ UNCHANGED <<parking, payment, alert>>
    /\ UNCHANGED <<now, requests, completeCalls, paymentModalVisible, Notice, Drawer,
                   Locating, discarded>>

\* the wait for the confirmation times out; the gateway may still answer
GatewayTimeout ==
    /\ payment.status = "Pending"
    /\ paymentFails("GatewayTimeout", payment.checkoutRequestID)
    /\ UNCHANGED <<now, requests, outstanding, completeCalls, paymentModalVisible, Notice,
                   Drawer, Locating, discarded>>

\* index.tsx:177-184
SuccessDone ==
    /\ alert = "success"
    /\ Invoke("SuccessDone", doneCalls)
    /\ paymentModalVisible' = FALSE
    /\ alert' = "none"
    /\ UNCHANGED <<now, Gateway, Notice, Drawer, Locating, discarded>>

\* index.tsx:189
ErrorOk ==
    /\ alert = "error"
    /\ alert' = "none"
    /\ Did("ErrorOk", <<>>)
    /\ UNCHANGED <<now, parking, payment, Gateway, paymentModalVisible, Notice,
                   Drawer, Locating, discarded>>

\* ------------------------------------------------------- location effect
\* index.tsx:222-239; a rejected promise ends the async function where it is
PermissionResult(granted) ==
    /\ locPc = "permission"
    /\ IF granted
       THEN /\ locPc' = "location"
            /\ UNCHANGED <<Notice, loadingLocation>>
       ELSE /\ showModal("Location permission is required", "error")
            /\ loadingLocation' = FALSE
            /\ locPc' = "done"
    /\ Did("PermissionResult", <<>>)
    /\ UNCHANGED <<now, parking, payment, Gateway, paymentModalVisible, alert,
                   Drawer, location, discarded>>

LocationResult(found) ==
    /\ locPc = "location"
    /\ IF found
       THEN /\ location' = "located"
            /\ UNCHANGED Notice
       ELSE /\ showModal("Unable to fetch location", "error")
            /\ UNCHANGED location
    /\ loadingLocation' = FALSE
    /\ locPc' = "done"
    /\ Did("LocationResult", <<>>)
    /\ UNCHANGED <<now, parking, payment, Gateway, paymentModalVisible, alert,
                   Drawer, discarded>>

LocationServiceThrows ==
    /\ locPc \in {"permission", "location"}
    /\ locPc' = "failed"
    /\ Did("LocationServiceThrows", <<>>)
    /\ UNCHANGED <<now, parking, payment, Gateway, paymentModalVisible, alert,
                   Notice, Drawer, location, loadingLocation, discarded>>

\* ---------------------------------------------------------- panResponder
\* vertical displacements of a drag, in points
DragDys == {-50, 0, 200, 600}

Max_noClamp(a, b) == b

Max(a, b) == IF a >= b THEN a ELSE b

\* index.tsx:59-67
PanResponderMove(dy) ==
    /\ DrawerReachable
    /\ IF dy > 0
       THEN drawerHeight' = Max(DRAWER_MIN_HEIGHT_Q, DRAWER_MAX_HEIGHT_Q - Q(dy))
       ELSE UNCHANGED drawerHeight
    /\ Did("PanResponderMove", <<>>)
    /\ UNCHANGED <<now, parking, payment, Gateway, paymentModalVisible, alert,
                   Notice, isDrawerMinimized, Locating, discarded>>

\* index.tsx:68-87; currentHeight < threshold, both doubled
PanResponderRelease(dy) ==
    /\ DrawerReachable
    /\ LET currentHeight == DRAWER_MAX_HEIGHT_Q - Q(dy) IN
       IF 2 * currentHeight < DRAWER_MIN_HEIGHT_Q + DRAWER_MAX_HEIGHT_Q
       THEN /\ drawerHeight' = DRAWER_MIN_HEIGHT_Q
            /\ isDrawerMinimized' = TRUE
       ELSE /\ drawerHeight' = DRAWER_MAX_HEIGHT_Q
            /\ isDrawerMinimized' = FALSE
    /\ Did("PanResponderRelease", <<>>)
    /\ UNCHANGED <<now, parking, payment, Gateway, paymentModalVisible, alert,
                   Notice, Locating, discarded>>

\* ------------------------------------------------------------------ spec
Init ==
    /\ now = 0
    /\ parking = [isParking |-> FALSE, startTime |-> NoTime, session |-> 0,
                  history |-> <<>>, tracked |-> NoCoords]
    /\ payment = [status |-> "Idle", phoneNumber |-> <<>>,
                  checkoutRequestID |-> NoRequest, receipt |-> ""]
    /\ requests = <<>>
    /\ outstanding = {}
    /\ paymentModalVisible = FALSE
    /\ alert = "none"
    /\ modalVisible = FALSE
    /\ modalMessage = ""
    /\ modalType = "success"
    /\ dismissPending = FALSE
    /\ drawerHeight = DRAWER_MAX_HEIGHT_Q
    /\ isDrawerMinimized = FALSE
    /\ location = NoCoords
    /\ loadingLocation = TRUE
    /\ locPc = "permission"
    /\ last = [handler |-> "mount", req |-> NoRequest, calls |-> <<>>]
    /\ completeCalls = [r \in 1..MaxRequests |-> 0]
    /\ discarded = {}

\* the parking and payment flow: the swipe control, the payment drawer's
\* buttons, the cancel dialog and the gateway
NextPay ==
    \/ Tick
    \/ toggleParking
    \/ PaymentModalRequestClose
    \/ BackdropPress
    \/ CloseButtonPress
    \/ CancelLinkPress
    \/ ContinueParking
    \/ YesCancel
    \/ \E raw \in PhoneInputs : ChangeText(raw)
    \/ handleInitiatePayment
    \/ CancelPaymentPress
    \/ \E r \in 1..MaxRequests, receipt \in Receipts : GatewaySuccess(r, receipt)
    \/ \E r \in 1..MaxRequests : GatewayFailure(r)
    \/ GatewayTimeout
    \/ SuccessDone
    \/ ErrorOk

\* dismissing the notice modal
NextNotice ==
    \/ TimerFires
    \/ NoticeRequestClose

\* the location lookup at mount
NextLocation ==
    \/ \E granted \in BOOLEAN : PermissionResult(granted)
    \/ \E found \in BOOLEAN : LocationResult(found)
    \/ LocationServiceThrows

\* dragging the payment drawer
NextDrawer ==
    \/ \E dy \in DragDys : PanResponderMove(dy)
    \/ \E dy \in DragDys : PanResponderRelease(dy)

Next == NextPay \/ NextNotice \/ NextLocation \/ NextDrawer

\* the whole screen
Spec == Init /\ [][Next]_vars

\* the parking and payment flow while the location service has not answered,
\* the drawer is not dragged and the notice modal stays up.  The other
\* actions write only location, loadingLocation, locPc, the notice modal and
\* the drawer's height, and enable no step of NextPay.
SpecPay == Init /\ [][NextPay]_vars

\* the screen without the gateway: the swipe control, the cancel dialog, the
\* phone input, the notice modal, the location lookup and the drawer's drag
NextShell ==
    \/ Tick
    \/ toggleParking
    \/ PaymentModalRequestClose
    \/ BackdropPress
    \/ CloseButtonPress
    \/ CancelLinkPress
    \/ ContinueParking
    \/ YesCancel
    \/ \E raw \in PhoneInputs : ChangeText(raw)
    \/ NextNotice
    \/ NextLocation
    \/ NextDrawer

SpecShell == Init /\ [][NextShell]_vars


\* ================================================================ claims
Ran(h) == last'.handler = h

Invoked(op) == \E i \in 1..Len(last'.calls) : last'.calls[i] = op

Pending == payment.status = "Pending"

\* C1: every payment confirmed as successful has completeParking invoked
\* exactly once, over onPaymentSuccess and onSuccess together.
C1_CompleteExactlyOnce ==
    \A r \in 1..Len(requests) :
        requests[r].result = "success" => completeCalls[r] = 1

\* C2: Cancel Payment while Pending leaves the status AwaitingInput and the
\* parking session as it was; whatever the gateway then answers for the
\* cancelled request, the status does not become Success, no callback runs
\* and completeParking is never called for it.
C2_CancelThenLateSuccess ==
    /\ [][ (Ran("CancelPaymentPress") /\ Pending)
             => /\ payment'.status = "AwaitingInput"
                /\ parking' = parking ]_vars
    /\ [][ \A r \in 1..Len(requests) :
             (requests[r].result = "cancelled" /\ r \in outstanding /\ r \notin outstanding')
             => /\ (payment'.status = "Success" => payment.status = "Success")
                /\ payment' = payment
                /\ parking' = parking
                /\ last'.calls = <<>>
                /\ completeCalls' = completeCalls
                /\ alert' = alert ]_vars
    /\ [](\A r \in 1..Len(requests) :
             requests[r].result = "cancelled" => completeCalls[r] = 0)

\* the gateway confirmed a cancelled request and the confirmation was dropped
C2_Witness ==
    /\ last.handler = "GatewaySuccess"
    /\ last.req \in 1..Len(requests)
    /\ requests[last.req].result = "cancelled"
    /\ last.req \notin outstanding
    /\ payment.status = "AwaitingInput"
    /\ parking.isParking

BadPhone(raw) == trim(raw) = <<>> \/ ~isNormalizedPhone(formatPhoneNumber(raw))

\* C4: with a phone number that is empty after trimming or that the
\* formatter does not accept, handleInitiatePayment does not call
\* initiatePayment, makes no gateway request and leaves the payment status,
\* the phone number and the parking session alone; it shows an error notice.
C4_InvalidPhoneRejected ==
    [][ (Ran("handleInitiatePayment") /\ BadPhone(payment.phoneNumber))
          => /\ last'.calls = <<>>
             /\ requests' = requests
             /\ outstanding' = outstanding
             /\ payment' = payment
             /\ parking' = parking
             /\ alert' = alert
             /\ paymentModalVisible' = paymentModalVisible
             /\ modalVisible'
             /\ modalType' = "error" ]_vars

\* the handler ran on "123" and on a blank number
C4_Witness ==
    /\ last.handler = "handleInitiatePayment"
    /\ last.calls = <<>>
    /\ payment.phoneNumber = <<"1", "2", "3">>
    /\ modalType = "error"
    /\ modalMessage = "Please enter a valid Kenyan phone number (e.g., 0712345678)"
    /\ parking.isParking

\* C5: the swipe on an Active session only opens the payment drawer; the
\* session stays Active with its start time, elapsed time being now minus
\* that start time, until 'Yes, Cancel' or a confirmed payment.
C5_SwipeOnlyOpensDrawer ==
    /\ [][ (Ran("toggleParking") /\ parking.isParking)
             => /\ last'.calls = <<>>
                /\ parking' = parking
                /\ payment' = payment
                /\ paymentModalVisible'
                /\ ~isDrawerMinimized' ]_vars
    /\ [][ (parking.isParking
             /\ (~parking'.isParking \/ parking'.startTime # parking.startTime
                 \/ parking'.session # parking.session))
             => (Ran("YesCancel") \/ (Ran("GatewaySuccess") /\ payment'.status = "Success")) ]_vars
    /\ [](parking.isParking => /\ parking.startTime \in 0..now
                               /\ elapsedTime(parking, now) = now - parking.startTime)

\* the drawer was opened on a session that has accrued time and is still Active
C5_Witness ==
    /\ last.handler = "toggleParking"
    /\ last.calls = <<>>
    /\ paymentModalVisible
    /\ parking.isParking
    /\ elapsedTime(parking, now) > 0


\* C6: 'Yes, Cancel' leaves the parking session Idle and the payment request
\* Idle and closes the drawer; the discarded session is never completed,
\* neither at the cancel nor by a gateway answer that arrives afterwards.
C6_YesCancelDiscards ==
    /\ [][ Ran("YesCancel")
             => /\ ~parking'.isParking
                /\ parking'.startTime = NoTime
                /\ payment'.status = "Idle"
                /\ payment'.checkoutRequestID = NoRequest
                /\ ~paymentModalVisible'
                /\ ~Invoked("completeParking")
                /\ parking'.history = parking.history
                /\ completeCalls' = completeCalls ]_vars
    /\ [][ Invoked("completeParking") => parking.session \notin discarded ]_vars
    /\ [](\A i \in 1..Len(parking.history) : parking.history[i].session \notin discarded)

\* the gateway confirmed a request of a session that 'Yes, Cancel' discarded
C6_Witness ==
    /\ parking.session \in discarded
    /\ last.handler = "GatewaySuccess"
    /\ last.calls = <<>>
    /\ ~parking.isParking
    /\ payment.status = "Idle"
    /\ parking.history = <<>>

\* C7: completeParking runs only in the step in which a payment reaches
\* Success; in Success the session has been completed and is Idle and the
\* success Alert is up, and its Done button resets the parking session and
\* the payment request to Idle and closes the drawer.
C7_CompletedOnlyOnSuccess ==
    /\ [][ (Invoked("completeParking") \/ parking'.history # parking.history)
             => /\ Pending
                /\ payment'.status = "Success"
                /\ Len(parking'.history) = Len(parking.history) + 1 ]_vars
    /\ [][ (payment.status # "Success" /\ payment'.status = "Success")
             => /\ Invoked("completeParking")
                /\ parking.isParking
                /\ ~parking'.isParking
                /\ parking'.history[Len(parking'.history)].session = parking.session ]_vars
    /\ [](payment.status = "Success" => alert = "success" /\ ~parking.isParking)
    /\ [][ Ran("SuccessDone")
             => /\ last'.calls = <<"resetParking", "resetPayment">>
                /\ ~parking'.isParking
                /\ payment'.status = "Idle"
                /\ ~paymentModalVisible' ]_vars
    /\ [][ (payment.status = "Success" /\ payment' # payment) => Ran("SuccessDone") ]_vars

\* Done was pressed after a confirmed payment
C7_Witness ==
    /\ last.handler = "SuccessDone"
    /\ Len(parking.history) = 1
    /\ ~parking.isParking
    /\ payment.status = "Idle"
    /\ ~paymentModalVisible

\* C8: a gateway failure or a timeout of the pending payment leaves the
\* parking session as it was, calls no hook operation from onError, and puts
\* the payment where the same number can be submitted again.
C8_FailureKeepsSession ==
    [][ ((Ran("GatewayFailure") \/ Ran("GatewayTimeout")) /\ Pending
         /\ last'.req = payment.checkoutRequestID)
          => /\ parking' = parking
             /\ parking.isParking
             /\ last'.calls = <<>>
             /\ completeCalls' = completeCalls
             /\ payment'.status = "AwaitingInput"
             /\ payment'.phoneNumber = payment.phoneNumber
             /\ initiateAccepts(payment', formatPhoneNumber(payment'.phoneNumber))
             /\ alert' = "error" ]_vars

\* the pending payment failed on a session that has accrued time
C8_Witness ==
    /\ last.handler \in {"GatewayFailure", "GatewayTimeout"}
    /\ last.req # NoRequest
    /\ alert = "error"
    /\ payment.status = "AwaitingInput"
    /\ parking.isParking
    /\ elapsedTime(parking, now) > 0

\* C9: startParking is called only on an Idle session, and the start time of
\* an Active session changes only by resetParking or completeParking.
C9_NoRestart ==
    /\ [][ Invoked("startParking") => ~parking.isParking ]_vars
    /\ [][ (parking.isParking /\ parking'.startTime # parking.startTime)
             => (Invoked("resetParking") \/ Invoked("completeParking")) ]_vars
    /\ [][ (parking.isParking /\ parking'.isParking)
             => parking'.session = parking.session ]_vars

\* the swipe ran again on an Active session started earlier
C9_Witness ==
    /\ last.handler = "toggleParking"
    /\ parking.isParking
    /\ parking.startTime < now
    /\ paymentModalVisible

C11_ContinueKeepsSession ==
    [][ Ran("ContinueParking")
          => /\ parking.isParking
             /\ parking'.isParking
             /\ parking'.startTime = parking.startTime
             /\ parking'.session = parking.session
             /\ parking'.history = parking.history
             /\ elapsedTime(parking', now') = elapsedTime(parking, now)
             /\ payment' = payment
             /\ ~paymentModalVisible'
             /\ alert' = "none"
             /\ UNCHANGED <<now, Gateway, Notice, Drawer, Locating, discarded>> ]_vars

\* 'Continue Parking' was chosen with a number typed, time accrued and the
\* location known
C11_Witness ==
    /\ last.handler = "ContinueParking"
    /\ parking.isParking
    /\ elapsedTime(parking, now) > 0
    /\ parking.tracked = "coords"
    /\ payment.status = "AwaitingInput"
    /\ payment.phoneNumber = <<"1", "2", "3">>
    /\ ~paymentModalVisible


\* C12: whatever the outcome of the location lookup at mount (permission
\* denied, no location, a location, or requestPermission /
\* getCurrentLocation failing), once the lookup is over the screen has left
\* the loading state.
C12_LookupLeavesLoading ==
    locPc \in {"done", "failed"} => ~loadingLocation

\* C13: while a payment is being processed no entry point of the cancel
\* dialog opens it and nothing calls resetParking or resetPayment, so the
\* cancel dialog is never up over a payment being processed and a payment
\* being processed always belongs to an Active session.
C13_ProcessingNotDiscarded ==
    [][ /\ isProcessingPayment(payment)
            => /\ parking.isParking
               /\ alert # "cancel"
               /\ ~Ran("handleCancelPayment")
               /\ ~Invoked("resetParking")
               /\ ~Invoked("resetPayment")
        /\ isProcessingPayment(payment')
            => /\ parking'.isParking
               /\ alert' # "cancel" ]_vars

\* a payment is awaited on a session that has accrued time, the drawer open
\* with its close button and Cancel link in view
C13_Witness ==
    /\ isProcessingPayment(payment)
    /\ parking.isParking
    /\ elapsedTime(parking, now) > 0
    /\ paymentModalVisible
    /\ ~isDrawerMinimized
    /\ alert = "none"

\* C14: the drawer height is always within [DRAWER_MIN_HEIGHT,
\* DRAWER_MAX_HEIGHT]; a release targets DRAWER_MIN_HEIGHT or
\* DRAWER_MAX_HEIGHT and isDrawerMinimized is true exactly when the target is
\* DRAWER_MIN_HEIGHT; a tap (release with dy = 0) on a minimized drawer and
\* every opening of the drawer by toggleParking leave it maximized.
C14_DrawerHeights ==
    [][ /\ drawerHeight \in DRAWER_MIN_HEIGHT_Q..DRAWER_MAX_HEIGHT_Q
        /\ drawerHeight' \in DRAWER_MIN_HEIGHT_Q..DRAWER_MAX_HEIGHT_Q
        /\ Ran("PanResponderRelease")
            => /\ drawerHeight' \in {DRAWER_MIN_HEIGHT_Q, DRAWER_MAX_HEIGHT_Q}
               /\ isDrawerMinimized' <=> drawerHeight' = DRAWER_MIN_HEIGHT_Q
        /\ isDrawerMinimized /\ PanResponderRelease(0)
            => /\ drawerHeight' = DRAWER_MAX_HEIGHT_Q
               /\ ~isDrawerMinimized'
        /\ Ran("toggleParking") /\ parking.isParking
            => /\ paymentModalVisible'
               /\ drawerHeight' = DRAWER_MAX_HEIGHT_Q
               /\ ~isDrawerMinimized' ]_vars

\* a drag was released far enough down to minimize the drawer
C14_Witness ==
    /\ last.handler = "PanResponderRelease"
    /\ paymentModalVisible
    /\ isDrawerMinimized
    /\ drawerHeight = DRAWER_MIN_HEIGHT_Q

====
